---- MODULE Spec2Model ----
(***************************************************************************)
(* State machine of main.py: the YouTubeSearchApp window, its search task  *)
(* (start_search / perform_search), the playback launcher (open_video) and *)
(* the one-second liveness timer (check_mpv_status).                       *)
(*                                                                         *)
(* The remote search, the thumbnail GET and the spawn of mpv are the       *)
(* environment: their outcomes are chosen nondeterministically.  UI        *)
(* signals (returnPressed, clicked, itemDoubleClicked) are delivered only  *)
(* to widgets that are visible and enabled.  View-count and date           *)
(* formatting are display-only and are not part of the rows modelled here. *)
(***************************************************************************)
EXTENDS Integers, Sequences, FiniteSets, TLC

\* ---------------------------------------------------------------- bounds
MaxItems == 3    \* entries in the result collection of a payload
MaxErrors == 2   \* error rows that spawn failures may add on top of a result page
MaxTasks == 2    \* perform_search tasks the model can hold in flight
MaxProcs == 2    \* player processes the model can hold alive

\* ------------------------------------------------------------- constants
None == 0        \* mpv_process = None

VARIABLES
    page,           \* stacked_widget current page: "main" | "loading"
    search_button,  \* search_button.isEnabled()
    search_input,   \* search_input.isEnabled()
    results_list,   \* rows of the QListWidget, top to bottom
    video_data,     \* self.video_data
    mpv_process,    \* None or the pid of the tracked Popen handle
    visible,        \* the main window is shown
    running,        \* pids of spawned players that have not exited
    scheduled,      \* perform_search tasks created and not yet started
    awaiting,       \* perform_search tasks suspended in asyncio.to_thread
    event           \* the handler that ran last, its input and its outcome

vars == <<page, search_button, search_input, results_list, video_data,
          mpv_process, visible, running, scheduled, awaiting, event>>

ui == <<page, search_button, search_input>>

\* ------------------------------------------------------ values and payload
\* A JSON scalar: a string, or something that is not a string.
Str(s) == [t |-> "str", v |-> s]
Num(s) == [t |-> "num", v |-> s]

EmptyDict == [k \in {} |-> TRUE]

\* The fixed path to the result collection; "[0]" is the list subscript.
Path == <<"contents", "twoColumnSearchResultsRenderer", "primaryContents",
          "sectionListRenderer", "contents", "[0]", "itemSectionRenderer",
          "contents">>

\* The value v reached through the first i steps of Path.
RECURSIVE Wrap(_, _)
Wrap(i, v) ==
    IF i = 0 THEN v
    ELSE Wrap(i - 1, IF Path[i] = "[0]" THEN <<v>> ELSE [k \in {Path[i]} |-> v])

\* Thumbnail URLs, one per behaviour of the GET.
UrlImage == "https://i/ok.jpg"        \* bytes of an image
UrlDown == "https://i/down.jpg"       \* the GET raises
UrlGarbage == "https://i/html.jpg"    \* bytes that are not an image

\* Entries of the result collection.  title stands for title.runs[0].text,
\* ownerText for ownerText.runs[0].text, thumbnail for
\* thumbnail.thumbnails[-1].url.
Video(id, title, url) ==
    [videoRenderer |-> [title |-> title, ownerText |-> Str("ch"),
                        videoId |-> id, thumbnail |-> url]]
NoTitle(id, url) ==
    [videoRenderer |-> [ownerText |-> Str("ch"), videoId |-> id,
                        thumbnail |-> url]]
Shelf == [shelfRenderer |-> EmptyDict]

Entries ==
    { Shelf,
      Video("a", Str("A"), UrlImage),
      Video("b", Str("B"), UrlDown),
      Video("c", Str("C"), UrlGarbage),
      NoTitle("d", UrlImage),
      Video("e", Num("7"), UrlImage) }

RECURSIVE SeqsUpTo(_, _)
SeqsUpTo(S, n) ==
    IF n = 0 THEN {<<>>}
    ELSE LET shorter == SeqsUpTo(S, n - 1)
         IN  shorter \cup {Append(s, e) : s \in {t \in shorter : Len(t) = n - 1}, e \in S}

\* Payloads client.search can return: the path cut after d steps, or the
\* whole path down to a result collection.
Payloads ==
    {Wrap(d, EmptyDict) : d \in 0..(Len(Path) - 1)}
        \cup {Wrap(Len(Path), r) : r \in SeqsUpTo(Entries, MaxItems)}

\* Outcomes of `await asyncio.to_thread(self.client.search, query=query)`.
SearchOutcomes ==
    {[raised |-> TRUE, data |-> EmptyDict]}
        \cup {[raised |-> FALSE, data |-> d] : d \in Payloads}

\* ------------------------------------------------------------ pure helpers
IsSpace(c) == c = " "

RECURSIVE LStrip(_)
LStrip(s) == IF s # <<>> /\ IsSpace(Head(s)) THEN LStrip(Tail(s)) ELSE s

RECURSIVE RStrip(_)
RStrip(s) ==
    IF s # <<>> /\ IsSpace(s[Len(s)]) THEN RStrip(SubSeq(s, 1, Len(s) - 1)) ELSE s

\* str.strip()
Strip(s) == RStrip(LStrip(s))

\* Texts the search input can hold when start_search fires.
Texts == {<<>>, <<" ">>, <<"q">>, <<" ", "q", " ">>}

\* `key in v` for a dict, and whether v[0] exists for a list.
Has(v, key) == IF key = "[0]" THEN 1 \in DOMAIN v ELSE key \in DOMAIN v
Get(v, key) == IF key = "[0]" THEN v[1] ELSE v[key]

\* requests.get(thumbnail_url)
Fetch(url) ==
    CASE url = UrlImage -> "image"
      [] url = UrlDown -> "raises"
      [] OTHER -> "garbage"

\* What the thumbnail label of VideoItemWidget ends up showing.
\* QImage.loadFromData returns False on undecodable bytes and does not
\* raise, so the label then holds a null pixmap.
ThumbnailLabel(url) ==
    CASE Fetch(url) = "raises" -> "No preview"
      [] Fetch(url) = "image" -> "pixmap"
      [] OTHER -> "null pixmap"

\* f"https://www.youtube.com/watch?v={video_id}"
WatchUrl(video_id) == <<"https://www.youtube.com/watch?v=", video_id>>

\* video_data[index] with Python's subscript rule for a negative index.
At(seq, index) == IF index < 0 THEN seq[Len(seq) + index + 1] ELSE seq[index + 1]

\* A plain text row, as addItem(str) makes.
ErrorRow(text) == [kind |-> "text", text |-> text]

\* The row VideoItemWidget shows for a record.
WidgetRow(title, author, url) ==
    [kind |-> "widget", title |-> title.v, author |-> author.v,
     thumbnail |-> ThumbnailLabel(url)]

\* What the handler that ran last was: its name, the row index it was given,
\* its outcome, the URL it handed to Popen and what client.search gave it.
NoSearch == [raised |-> FALSE, data |-> EmptyDict]
SearchEvent(out, given) ==
    [name |-> "perform_search", index |-> 0, out |-> out, url |-> <<>>, given |-> given]
Event(name, index, out, url) ==
    [name |-> name, index |-> index, out |-> out, url |-> url, given |-> NoSearch]

\* ------------------------------------------------------------------- Init
\* The state in which the event loop starts: __init__ has run and main()
\* has shown the window.
Init ==
    /\ page = "main"
    /\ search_button = TRUE
    /\ search_input = TRUE
    /\ results_list = <<>>
    /\ video_data = <<>>
    /\ mpv_process = None
    /\ visible = TRUE
    /\ running = {}
    /\ scheduled = 0
    /\ awaiting = 0
    /\ event = Event("init", 0, "", <<>>)

\* ------------------------------------------------------- presentation state
show_loading_mut ==
    /\ page' = "main"
    /\ search_button' = TRUE
    /\ search_input' = TRUE

show_loading ==
    /\ page' = "loading"
    /\ search_button' = FALSE
    /\ search_input' = FALSE

show_main ==
    /\ page' = "main"
    /\ search_button' = TRUE
    /\ search_input' = TRUE

Finally_mut(raised) == IF raised THEN UNCHANGED ui ELSE show_main

\* The finally clause: runs whether or not the try body raised.
Finally(raised) == show_main

\* ----------------------------------------------------------- start_search
\* returnPressed of the input or clicked of the button; either widget emits
\* only while it is enabled and its page is the one shown.
start_search(signal, text) ==
    /\ visible
    /\ page = "main"
    /\ IF signal = "returnPressed" THEN search_input ELSE search_button
    /\ LET query == Strip(text)
       IN  IF query # <<>>
           THEN /\ scheduled + awaiting < MaxTasks
                /\ show_loading
                /\ scheduled' = scheduled + 1
                /\ event' = Event("start_search", 0, "dispatched", <<>>)
           ELSE /\ UNCHANGED <<ui, scheduled>>
                /\ event' = Event("start_search", 0, "ignored", <<>>)
    /\ UNCHANGED <<results_list, video_data, mpv_process, visible, running,
                   awaiting>>

\* --------------------------------------------------------- perform_search
\* First step of the task: clear both lists, then suspend in to_thread.
perform_search_begin ==
    /\ scheduled > 0
    /\ results_list' = <<>>
    /\ video_data' = <<>>
    /\ scheduled' = scheduled - 1
    /\ awaiting' = awaiting + 1
    /\ event' = Event("perform_search_begin", 0, "", <<>>)
    /\ UNCHANGED <<ui, mpv_process, visible, running>>

TopLevelPresent_mut(data) == Has(data, Path[1])

\* The `if` guarding the subscript chain.
TopLevelPresent(data) ==
    /\ Has(data, Path[1])
    /\ Has(Get(data, Path[1]), Path[2])

\* The subscript chain from step i on: one missing key or index raises.
RECURSIVE Descend(_, _)
Descend(v, i) ==
    IF i > Len(Path) THEN [raised |-> FALSE, val |-> v]
    ELSE IF Has(v, Path[i]) THEN Descend(Get(v, Path[i]), i + 1)
    ELSE [raised |-> TRUE, val |-> EmptyDict]

IsVideo_mut(item) == TRUE

\* 'videoRenderer' in item
IsVideo(item) == "videoRenderer" \in DOMAIN item

\* The subscripts that extract the fields of a video entry all succeed.
FieldsPresent(video) ==
    /\ Has(video, "title")
    /\ Has(video, "ownerText")
    /\ Has(video, "videoId")
    /\ Has(video, "thumbnail")

\* QLabel(title), setToolTip(title) and QLabel(author) take a str only.
WidgetBuilds(rec) == rec.title.t = "str" /\ rec.author.t = "str"

Outcome(vd, rl, raised) == [video_data |-> vd, results_list |-> rl, raised |-> raised]

\* The for loop over the result collection from entry i on, given the
\* records vd and rows rl produced so far.
RECURSIVE Project(_, _, _, _)
Project(results, i, vd, rl) ==
    IF i > Len(results) THEN Outcome(vd, rl, FALSE)
    ELSE LET item == results[i]
         IN  IF ~IsVideo(item) THEN Project(results, i + 1, vd, rl)
             ELSE IF ~Has(item, "videoRenderer") THEN Outcome(vd, rl, TRUE)
             ELSE LET video == item["videoRenderer"]
                  IN  IF ~FieldsPresent(video) THEN Outcome(vd, rl, TRUE)
                      ELSE LET rec == [title |-> video["title"],
                                       author |-> video["ownerText"],
                                       video_id |-> video["videoId"],
                                       thumbnail_url |-> video["thumbnail"]]
                               vd2 == Append(vd, rec)
                           IN  IF ~WidgetBuilds(rec) THEN Outcome(vd2, rl, TRUE)
                               ELSE Project(results, i + 1, vd2,
                                            Append(rl, WidgetRow(rec.title, rec.author,
                                                                 rec.thumbnail_url)))

\* The body of the try block after the await, for what the search gave.
TryBody(o, vd, rl) ==
    IF o.raised THEN Outcome(vd, rl, TRUE)
    ELSE IF ~TopLevelPresent(o.data) THEN Outcome(vd, rl, FALSE)
    ELSE LET nav == Descend(o.data, 1)
         IN  IF nav.raised THEN Outcome(vd, rl, TRUE)
             ELSE Project(nav.val, 1, vd, rl)

\* The search call returns or raises; the task resumes and runs to its end
\* (projection, except, finally) without yielding to the event loop.
perform_search_resume(o) ==
    /\ awaiting > 0
    /\ LET r == TryBody(o, video_data, results_list)
       IN  /\ video_data' = r.video_data
           /\ results_list' = IF r.raised
                              THEN Append(r.results_list, ErrorRow("Error: "))
                              ELSE r.results_list
           /\ event' = SearchEvent(IF r.raised THEN "raised" ELSE "projected", o)
           /\ Finally(r.raised)
    /\ awaiting' = awaiting - 1
    /\ UNCHANGED <<mpv_process, visible, running, scheduled>>

\* ------------------------------------------------------------- open_video
InBounds_mut(index) == -Len(video_data) <= index /\ index < Len(video_data)

\* 0 <= index < len(self.video_data)
InBounds(index) == 0 <= index /\ index < Len(video_data)

FreePids == (1..MaxProcs) \ (running \cup {mpv_process})

SpawnOk_mut(url) ==
    /\ FreePids # {}
    /\ LET pid == CHOOSE p \in FreePids : \A q \in FreePids : p <= q
       IN  /\ mpv_process' = pid
           /\ running' = running \cup {pid}
    /\ UNCHANGED <<visible, results_list>>

\* subprocess.Popen returned a handle: track it and hide the window.
SpawnOk(url) ==
    /\ FreePids # {}
    /\ LET pid == CHOOSE p \in FreePids : \A q \in FreePids : p <= q
       IN  /\ mpv_process' = pid
           /\ running' = running \cup {pid}
    /\ visible' = FALSE
    /\ UNCHANGED results_list

SpawnFail_mut(url) ==
    /\ Len(results_list) < MaxItems + MaxErrors
    /\ results_list' = Append(results_list, ErrorRow("Error opening mpv: "))
    /\ visible' = FALSE
    /\ UNCHANGED <<mpv_process, running>>

\* subprocess.Popen raised: one error row, nothing else.
SpawnFail(url) ==
    /\ Len(results_list) < MaxItems + MaxErrors
    /\ results_list' = Append(results_list, ErrorRow("Error opening mpv: "))
    /\ UNCHANGED <<mpv_process, running, visible>>

\* itemDoubleClicked on the result list; index is results_list.row(item),
\* which is -1 for an item that is no longer in the list.
open_video(index, spawns) ==
    /\ visible
    /\ page = "main"
    /\ index \in -1..(Len(results_list) - 1)
    /\ IF InBounds(index)
       THEN LET url == WatchUrl(At(video_data, index).video_id)
            IN  IF spawns
                THEN SpawnOk(url) /\ event' = Event("open_video", index, "spawned", url)
                ELSE SpawnFail(url) /\ event' = Event("open_video", index, "spawn_failed", url)
       ELSE /\ UNCHANGED <<mpv_process, running, visible, results_list>>
            /\ event' = Event("open_video", index, "noop", <<>>)
    /\ UNCHANGED <<ui, video_data, scheduled, awaiting>>

\* ------------------------------------------------------- check_mpv_status
Exited_mut(pid) == pid \in running

\* mpv_process.poll() is not None
Exited(pid) == pid \notin running

check_mpv_status ==
    /\ IF mpv_process # None /\ Exited(mpv_process)
       THEN /\ mpv_process' = None
            /\ visible' = TRUE
            /\ event' = Event("check_mpv_status", 0, "restored", <<>>)
       ELSE /\ UNCHANGED <<mpv_process, visible>>
            /\ event' = Event("check_mpv_status", 0, "nothing", <<>>)
    /\ UNCHANGED <<ui, results_list, video_data, running, scheduled, awaiting>>

\* The external player process ends.
player_exit(pid) ==
    /\ pid \in running
    /\ running' = running \ {pid}
    /\ event' = Event("player_exit", 0, "", <<>>)
    /\ UNCHANGED <<ui, results_list, video_data, mpv_process, visible,
                   scheduled, awaiting>>

\* ------------------------------------------------------------------- Next
Signals == {"returnPressed", "clicked"}

Next ==
    \/ \E signal \in Signals, text \in Texts : start_search(signal, text)
    \/ perform_search_begin
    \/ \E o \in SearchOutcomes : perform_search_resume(o)
    \/ \E index \in -1..(MaxItems + MaxErrors), spawns \in BOOLEAN : open_video(index, spawns)
    \/ check_mpv_status
    \/ \E pid \in 1..MaxProcs : player_exit(pid)

Spec == Init /\ [][Next]_vars

\* The event loop runs every ready task and timer callback, and the claim
\* about searches assumes the background call returns.
Fairness ==
    /\ WF_vars(perform_search_begin)
    /\ WF_vars(\E o \in SearchOutcomes : perform_search_resume(o))
    /\ WF_vars(check_mpv_status)

LiveSpec == Spec /\ Fairness

TypeOK ==
    /\ page \in {"main", "loading"}
    /\ search_button \in BOOLEAN
    /\ search_input \in BOOLEAN
    /\ mpv_process \in 0..MaxProcs
    /\ running \subseteq 1..MaxProcs
    /\ scheduled \in 0..MaxTasks
    /\ awaiting \in 0..MaxTasks

\* ================================================================= claims
Idle == page = "main" /\ search_input /\ search_button
Searching == page = "loading"
SearchCompleted == event.name = "perform_search"

\* Classification of what the last search was given, by how the payload
\* was built.
CutAt(lo, hi) ==
    /\ ~event.given.raised
    /\ \E d \in lo..hi : event.given.data = Wrap(d, EmptyDict)

GoodEntries ==
    {Shelf, Video("a", Str("A"), UrlImage), Video("b", Str("B"), UrlDown),
     Video("c", Str("C"), UrlGarbage)}

WellFormedResults ==
    {r \in SeqsUpTo(GoodEntries, MaxItems) :
        ~event.given.raised /\ event.given.data = Wrap(Len(Path), r)}

\* The video entries of a result collection, in payload order.
VideosOf(r) == SelectSeq(r, LAMBDA e : e # Shelf)

ErrorRows == {i \in 1..Len(results_list) : results_list[i].kind = "text"}

\* C1: every completed perform_search, whatever its outcome, leaves the
\* main page shown with the input and the button enabled, and every
\* searching state is eventually followed by an idle state.
C1_SearchReturnsToIdle ==
    /\ [](SearchCompleted => Idle)
    /\ (Searching ~> Idle)

C1_Witness ==
    /\ SearchCompleted
    /\ event.out = "raised"
    /\ ~event.given.raised
    /\ Len(video_data) > 0
    /\ Idle

\* C2: at most one perform_search task is in flight in every reachable
\* state, and a search is dispatched only when none is in flight.
C2_OneSearchInFlight ==
    /\ [](scheduled + awaiting <= 1)
    /\ [][scheduled' > scheduled => scheduled + awaiting = 0]_vars

C2_Witness == awaiting = 1 /\ Searching

C4_OutOfBoundsNoop ==
    [][(/\ event'.name = "open_video"
        /\ (event'.index < 0 \/ event'.index >= Len(video_data)))
          => /\ event'.out = "noop"
             /\ UNCHANGED <<mpv_process, visible, running, results_list, video_data>>]_vars

C4_Witness ==
    /\ event.name = "open_video"
    /\ event.out = "noop"
    /\ event.index >= Len(video_data)
    /\ Len(video_data) > 0

\* C5: open_video on an in-bounds index either spawns (handle tracked,
\* window hidden) or fails to (one error entry appended; visibility, handle
\* and video_data unchanged).
C5_SpawnOutcomes ==
    [][(/\ event'.name = "open_video"
        /\ 0 <= event'.index
        /\ event'.index < Len(video_data))
          => \/ /\ event'.out = "spawned"
                /\ mpv_process' # None
                /\ mpv_process' \in running'
                /\ ~visible'
                /\ UNCHANGED <<results_list, video_data>>
             \/ /\ event'.out = "spawn_failed"
                /\ Len(results_list') = Len(results_list) + 1
                /\ SubSeq(results_list', 1, Len(results_list)) = results_list
                /\ results_list'[Len(results_list')].kind = "text"
                /\ UNCHANGED <<visible, mpv_process, running, video_data>>]_vars

C5_Witness ==
    /\ event.name = "open_video"
    /\ event.out = "spawn_failed"
    /\ visible
    /\ ErrorRows # {}

\* C6: a tick with a tracked, exited player clears the handle and shows the
\* window; a tick with a tracked, running player changes nothing; nothing
\* but a tick re-shows the window; and a window hidden behind an exited
\* player is eventually shown.
C6_PollingRestoresWindow ==
    /\ [][(event'.name = "check_mpv_status" /\ mpv_process # None /\ mpv_process \notin running)
            => (mpv_process' = None /\ visible')]_vars
    /\ [][(event'.name = "check_mpv_status" /\ mpv_process # None /\ mpv_process \in running)
            => UNCHANGED <<mpv_process, visible, running, results_list, video_data, ui>>]_vars
    /\ [][(~visible /\ visible') => event'.name = "check_mpv_status"]_vars
    /\ ((~visible /\ mpv_process # None /\ mpv_process \notin running) ~> visible)

C6_Witness ==
    /\ event.name = "check_mpv_status"
    /\ event.out = "restored"
    /\ visible
    /\ mpv_process = None

\* C7: after a search over a well-formed payload with N video entries and
\* M other entries, video_data and the list hold exactly the N videos in
\* payload order and no error entry.
C7_ProjectsVideosInOrder ==
    SearchCompleted =>
        \A r \in WellFormedResults :
            LET vs == VideosOf(r)
            IN  /\ Len(video_data) = Len(vs)
                /\ Len(results_list) = Len(vs)
                /\ \A i \in 1..Len(vs) :
                      /\ video_data[i].video_id = vs[i].videoRenderer.videoId
                      /\ video_data[i].title = vs[i].videoRenderer.title
                      /\ results_list[i].kind = "widget"
                      /\ results_list[i].title = vs[i].videoRenderer.title.v

C7_Witness ==
    /\ SearchCompleted
    /\ \E r \in WellFormedResults :
          /\ Len(r) = 3
          /\ r[2] = Shelf
          /\ r[1] # Shelf
          /\ r[3] # Shelf
          /\ r[1] # r[3]
    /\ Len(video_data) = 2

\* C8 as stated: an item whose thumbnail GET raises or whose bytes do not
\* decode shows "No preview", its record and row are produced, and no
\* error entry is appended.
C8_Claim ==
    SearchCompleted =>
        \A r \in WellFormedResults :
            LET vs == VideosOf(r)
            IN  /\ Len(video_data) = Len(vs)
                /\ Len(results_list) = Len(vs)
                /\ \A i \in 1..Len(vs) :
                      /\ results_list[i].kind = "widget"
                      /\ vs[i].videoRenderer.thumbnail \in {UrlDown, UrlGarbage}
                            => results_list[i].thumbnail = "No preview"

\* C9: a tracked handle is never replaced by another spawn, at most one
\* player is alive, and the window is hidden exactly when a handle is
\* tracked.
C9_OnePlaybackSession ==
    /\ [](visible <=> mpv_process = None)
    /\ [](Cardinality(running) <= 1)
    /\ [][mpv_process # None => mpv_process' \in {mpv_process, None}]_vars

C9_Witness ==
    /\ event.name = "open_video"
    /\ event.out = "spawned"
    /\ mpv_process # None
    /\ mpv_process \in running
    /\ ~visible

\* C10 as stated: whenever a selection can be made, rows 1..len(video_data)
\* are the widget rows of the records in order, every error entry sits
\* below them, and a spawn is attempted only for a widget row, with the URL
\* of that row's record.
C10_Claim ==
    /\ (visible /\ page = "main") =>
          /\ Len(video_data) <= Len(results_list)
          /\ \A i \in 1..Len(video_data) :
                /\ results_list[i].kind = "widget"
                /\ results_list[i].title = video_data[i].title.v
          /\ \A i \in ErrorRows : i > Len(video_data)
    /\ (event.name = "open_video" /\ event.out # "noop") =>
          /\ results_list[event.index + 1].kind = "widget"
          /\ event.url = WatchUrl(video_data[event.index + 1].video_id)

====
